---------------------------- MODULE Spec2Model ----------------------------
(***************************************************************************)
(* Temporal expressions of icholy/recurring and the searches built on      *)
(* them.                                                                   *)
(*                                                                         *)
(* An instant (Go's time.Time, in UTC) is a natural number: the ticks      *)
(* elapsed since the zero time, 0001-01-01 00:00:00.  A tick stands for    *)
(* the smallest duration the code uses (time.Nanosecond); an hour is       *)
(* TicksPerHour ticks.  The calendar fields of an instant are computed     *)
(* from it with the proleptic Gregorian arithmetic of package time.        *)
(***************************************************************************)
EXTENDS Integers, Sequences, FiniteSets, TLC

\* ------------------------------------------------------------------ bounds

\* ticks in an hour (the granularity of the time of day)
TicksPerHour == 2

\* the calendar window the inputs are drawn from: FirstYear .. FirstYear+NumYears-1
FirstYear == 2018

NumYears == 4

\* ------------------------------------------------------- package time (UTC)

Nanosecond == 1

Hour == TicksPerHour

TicksPerDay == 24 * Hour

\* time.Time{}
ZeroTime == 0

IsZero(t) == t = ZeroTime

\* t.Add(d)
Add(t, d) == t + d

\* t.Before(u)
Before(t, u) == t < u

\* t.Truncate(d): rounds t down to a multiple of d since the zero time
Truncate(t, d) == t - (t % d)

\* days elapsed since 0001-01-01, and the ticks elapsed in the day
AbsDay(t) == t \div TicksPerDay

TimeOfDay(t) == t % TicksPerDay

\* t.Hour()
TimeHour(t) == TimeOfDay(t) \div Hour

IsLeap(y) == (y % 4 = 0) /\ ((y % 100 # 0) \/ (y % 400 = 0))

\* days before month m (1..13) in a non-leap year
DaysBefore == <<0, 31, 59, 90, 120, 151, 181, 212, 243, 273, 304, 334, 365>>

DaysBeforeMonth(y, m) == DaysBefore[m] + (IF m > 2 /\ IsLeap(y) THEN 1 ELSE 0)

\* days elapsed since 0001-01-01 at the start of 1 January of year y
DaysBeforeYear(y) ==
    LET p == y - 1
    IN  365 * p + (p \div 4) - (p \div 100) + (p \div 400)

\* the year of a day number and the zero-based day within that year
YearAndYDay(d) ==
    LET n400 == d \div 146097
        d1   == d % 146097
        q100 == d1 \div 36524
        n100 == q100 - (q100 \div 4)
        d2   == d1 - 36524 * n100
        n4   == d2 \div 1461
        d3   == d2 % 1461
        q1   == d3 \div 365
        n1   == q1 - (q1 \div 4)
        d4   == d3 - 365 * n1
    IN  [year |-> 400 * n400 + 100 * n100 + 4 * n4 + n1 + 1, yday |-> d4]

\* t.Year()
TimeYear(t) == YearAndYDay(AbsDay(t)).year

\* t.YearDay() - 1
TimeYDay(t) == YearAndYDay(AbsDay(t)).yday

\* t.Month()
TimeMonth(t) ==
    LET yd == YearAndYDay(AbsDay(t))
    IN  CHOOSE m \in 1..12 :
            /\ DaysBeforeMonth(yd.year, m) <= yd.yday
            /\ yd.yday < DaysBeforeMonth(yd.year, m + 1)

\* t.Day()
TimeDay(t) ==
    LET yd == YearAndYDay(AbsDay(t))
    IN  yd.yday - DaysBeforeMonth(yd.year, TimeMonth(t)) + 1

\* t.Weekday(): Sunday = 0 .. Saturday = 6; 0001-01-01 is a Monday
TimeWeekday(t) == (AbsDay(t) + 1) % 7

\* time.Date(y, m, d, 0, 0, 0, tod, UTC): m and d may lie outside their ranges
\* and are normalised, October 32 becoming November 1
DateOf(y, m, d, tod) ==
    LET yy == y + ((m - 1) \div 12)
        mm == ((m - 1) % 12) + 1
    IN  (DaysBeforeYear(yy) + DaysBeforeMonth(yy, mm) + (d - 1)) * TicksPerDay + tod

\* t.AddDate(years, months, days)
AddDate(t, years, months, days) ==
    DateOf(TimeYear(t) + years, TimeMonth(t) + months, TimeDay(t) + days,
           TimeOfDay(t))

\* t.ISOWeek(): the week number of the Thursday of t's Monday-to-Sunday week
ISOWeek(t) ==
    LET wd    == TimeWeekday(t)
        delta == IF wd = 0 THEN -3 ELSE 4 - wd
    IN  (TimeYDay(Add(t, delta * TicksPerDay)) \div 7) + 1

\* ----------------------------------------------------------- package timeutil

BeginningOfHour(t) == Truncate(t, Hour)

BeginningOfDay_noHours(t) == BeginningOfHour(t)

BeginningOfDay(t) ==
    LET d == (-TimeHour(t)) * Hour
    IN  Add(BeginningOfHour(t), d)

BeginningOfWeek(t) ==
    LET b  == BeginningOfDay(t)
        w0 == TimeWeekday(b)
        w1 == IF w0 = 0 THEN 7 ELSE w0
        d  == (-(w1 - 1)) * 24 * Hour
    IN  Add(b, d)

BeginningOfMonth(t) ==
    LET b == BeginningOfDay(t)
        d == (-TimeDay(b) + 1) * 24 * Hour
    IN  Add(b, d)

EndOfMonth_noSub(t) == AddDate(BeginningOfMonth(t), 0, 1, 0)

EndOfMonth(t) == Add(AddDate(BeginningOfMonth(t), 0, 1, 0), -Nanosecond)

WeekOfMonth_zeroBased(t) == ISOWeek(t) - ISOWeek(BeginningOfMonth(t))

WeekOfMonth(t) == 1 + ISOWeek(t) - ISOWeek(BeginningOfMonth(t))

\* ---------------------------------------------------- temporal expressions

\* A TemporalExpression value: its concrete type, its (up to two) stored
\* numbers and its children.
Expr(kind, a, b, ee) == [kind |-> kind, a |-> a, b |-> b, ee |-> ee]

Day(n) == Expr("Day", n, 0, <<>>)

DayRange(s, e) == Expr("DayRange", s, e, <<>>)

Week(n) == Expr("Week", n, 0, <<>>)

Weekday(w) == Expr("Weekday", w, 0, <<>>)

WeekdayRange(s, e) == Expr("WeekdayRange", s, e, <<>>)

Month(m) == Expr("Month", m, 0, <<>>)

MonthRange(s, e) == Expr("MonthRange", s, e, <<>>)

Year(y) == Expr("Year", y, 0, <<>>)

YearRange(s, e) == Expr("YearRange", s, e, <<>>)

\* Date(t): the stored value is an instant
Date(t) == Expr("Date", t, 0, <<>>)

Or(ee) == Expr("Or", 0, 0, ee)

And(ee) == Expr("And", 0, 0, ee)

Not(e) == Expr("Not", 0, 0, <<e>>)

DayNormalize_offByOne(d, t) ==
    IF d < 0 THEN TimeDay(EndOfMonth(t)) + d ELSE d

DayNormalize_noSub(d, t) ==
    IF d < 0 THEN TimeDay(EndOfMonth_noSub(t)) + d + 1 ELSE d

\* func (d Day) normalize(t time.Time) int
DayNormalize(d, t) ==
    IF d < 0 THEN TimeDay(EndOfMonth(t)) + d + 1 ELSE d

\* func (d Day) Includes(t time.Time) bool
DayIncludes(d, t) == DayNormalize(d, t) = TimeDay(t)

DayRangeIncludes_or(s, e, t) ==
    LET d == TimeDay(t)
    IN  DayNormalize(s, t) <= d \/ d <= DayNormalize(e, t)

\* func (dr DayRangeExpression) Includes(t time.Time) bool
DayRangeIncludes(s, e, t) ==
    LET d == TimeDay(t)
    IN  DayNormalize(s, t) <= d /\ d <= DayNormalize(e, t)

\* func (w Week) normalize(t time.Time) int
WeekNormalize(w, t) ==
    IF w < 0 THEN WeekOfMonth(EndOfMonth(t)) + w + 1 ELSE w

\* func (w Week) Includes(t time.Time) bool
WeekIncludes(w, t) == WeekOfMonth(t) = WeekNormalize(w, t)

\* func (wd Weekday) Includes(t time.Time) bool
WeekdayIncludes(wd, t) == TimeWeekday(t) = wd

WeekdayRangeIncludes_strict(s, e, t) ==
    LET w == TimeWeekday(t)
    IN  s <= w /\ w < e

\* func (wr WeekdayRangeExpression) Includes(t time.Time) bool
WeekdayRangeIncludes(s, e, t) ==
    LET w == TimeWeekday(t)
    IN  s <= w /\ w <= e

\* func (m Month) Includes(t time.Time) bool
MonthIncludes(m, t) == TimeMonth(t) = m

\* func (mr MonthRangeExpression) Includes(t time.Time) bool
MonthRangeIncludes(s, e, t) ==
    LET m == TimeMonth(t)
    IN  s <= m /\ m <= e

\* func (y Year) Includes(t time.Time) bool
YearIncludes(y, t) == TimeYear(t) = y

\* func (yr YearRangeExpression) Includes(t time.Time) bool
YearRangeIncludes(s, e, t) ==
    LET year == TimeYear(t)
    IN  s <= year /\ year <= e

\* func (d Date) Includes(t time.Time) bool
DateIncludes(d, t) ==
    /\ TimeYear(t) = TimeYear(d)
    /\ TimeMonth(t) = TimeMonth(d)
    /\ TimeDay(t) = TimeDay(d)

RECURSIVE Includes(_, _), OrIncludesFrom(_, _, _), AndIncludesFrom(_, _, _)

\* OrExpression.Includes's loop from child k on: true at the first child that
\* includes t, false after the last.
OrIncludesFrom(ee, k, t) ==
    IF k > Len(ee) THEN FALSE
    ELSE IF Includes(ee[k], t) THEN TRUE
    ELSE OrIncludesFrom(ee, k + 1, t)

OrIncludes_firstOnly(ee, t) == Len(ee) > 0 /\ Includes(ee[1], t)

OrIncludes(ee, t) == OrIncludesFrom(ee, 1, t)

\* AndExpression.Includes's loop from child k on: false at the first child
\* that does not include t, true after the last.
AndIncludesFrom(ee, k, t) ==
    IF k > Len(ee) THEN TRUE
    ELSE IF ~Includes(ee[k], t) THEN FALSE
    ELSE AndIncludesFrom(ee, k + 1, t)

AndIncludes(ee, t) == AndIncludesFrom(ee, 1, t)

NotIncludes_noMatch(e, t) == FALSE

\* NotExpression.Includes
NotIncludes(e, t) == ~Includes(e, t)

\* te.Includes(t), dispatched on the concrete type of te.
Includes(e, t) ==
    CASE e.kind = "Day"          -> DayIncludes(e.a, t)
      [] e.kind = "DayRange"     -> DayRangeIncludes(e.a, e.b, t)
      [] e.kind = "Week"         -> WeekIncludes(e.a, t)
      [] e.kind = "Weekday"      -> WeekdayIncludes(e.a, t)
      [] e.kind = "WeekdayRange" -> WeekdayRangeIncludes(e.a, e.b, t)
      [] e.kind = "Month"        -> MonthIncludes(e.a, t)
      [] e.kind = "MonthRange"   -> MonthRangeIncludes(e.a, e.b, t)
      [] e.kind = "Year"         -> YearIncludes(e.a, t)
      [] e.kind = "YearRange"    -> YearRangeIncludes(e.a, e.b, t)
      [] e.kind = "Date"         -> DateIncludes(e.a, t)
      [] e.kind = "Or"           -> OrIncludes(e.ee, t)
      [] e.kind = "And"          -> AndIncludes(e.ee, t)
      [] e.kind = "Not"          -> NotIncludes(e.ee[1], t)

\* ------------------------------------------------------------------ state

VARIABLES
    op,      \* the operation called: "idle" before any call
    pc,      \* the position within it
    te,      \* the temporal expression it is called on
    start,   \* its argument t, as passed
    t,       \* its local t
    max,     \* its argument max (the horizon)
    n,       \* NextN's argument n
    i,       \* NextN's loop index
    ts,      \* NextN's result slice
    res,     \* the instant returned
    inc,     \* the boolean returned by Includes
    calleeT, \* the local t of the Start.Next a range's Next is calling
    recv,    \* the variable an append or a copy assigns to
    arg,     \* the child an append is given
    vals,    \* the combinator variables of the caller: each one's slice
             \* header (backing array, length, capacity)
    heap     \* the backing arrays allocated so far

vars ==
    <<op, pc, te, start, t, max, n, i, ts, res, inc,
      calleeT, recv, arg, vals, heap>>

\* the combinator variables of the caller
Names == {"x", "y"}

\* the nil slice of a combinator's zero value
NilSlice == [arr |-> 0, len |-> 0, cap |-> 0]

\* an unused slot of a backing array: the nil interface value
NilExpr == Expr("nil", 0, 0, <<>>)

\* The state once the expression of E the caller builds is constructed and
\* before anything is called on it.  Its children are the variadic slice of
\* the constructor call, as long as the argument list; x holds the value
\* constructed and y the zero value.
InitWith(E) ==
    /\ op = "idle"
    /\ pc = "idle"
    /\ te \in E
    /\ start = ZeroTime
    /\ t = ZeroTime
    /\ max = ZeroTime
    /\ n = 0
    /\ i = 0
    /\ ts = <<>>
    /\ res = ZeroTime
    /\ inc = FALSE
    /\ calleeT = ZeroTime
    /\ recv = "x"
    /\ arg = NilExpr
    /\ heap = <<te.ee>>
    /\ vals = [v \in Names |->
                  IF v = "x"
                  THEN [arr |-> 1, len |-> Len(te.ee), cap |-> Len(te.ee)]
                  ELSE NilSlice]

\* ----------------------------------------------------------------- inputs

\* the first instant of a calendar day
Midnight(y, m, d) == DateOf(y, m, d, 0)

LastYear == FirstYear + NumYears - 1

WindowDays == AbsDay(Midnight(FirstYear, 1, 1)) .. AbsDay(Midnight(LastYear, 12, 31))

\* times of day: midnight and the last tick of the day
TimesOfDay == {0, TicksPerDay - 1}

WindowInstants == {d * TicksPerDay + tod : d \in WindowDays, tod \in TimesOfDay}

DayValues == {-32, -31, -30, -29, -28, -2, -1, 0, 1, 2, 15, 28, 29, 30, 31, 32}

DayRangeEnds == {-2, -1, 0, 1, 5, 7}

Weekdays == 0..6

Months == 1..12

MonthRangeEnds == {1, 2, 6, 12}

YearValues == (FirstYear - 1) .. (LastYear + 1)

YearRangeEnds == {FirstYear, FirstYear + 1, LastYear}

Sunday == Weekday(0)

Saturday == Weekday(6)

February == Month(2)

Weekends == Or(<<Saturday, Sunday>>)

LeapDay == And(<<February, Day(29)>>)

Never == And(<<February, Day(30)>>)

CombinedExprs ==
    { Or(<<>>), And(<<>>), Weekends, Not(Weekends), Not(Not(Weekends)),
      LeapDay, Never, Not(Never),
      Or(<<Year(FirstYear), Day(1)>>), And(<<Year(FirstYear), Day(1)>>),
      Not(MonthRange(1, 2)), Not(Not(Day(-1))),
      Not(Not(Never)), Not(Not(Not(Weekends))), Not(Not(Or(<<>>))),
      Or(<<February, Day(-1), Weekday(1)>>),
      And(<<February, Day(-1), Weekday(1)>>),
      And(<<Or(<<Day(1), Day(15)>>), Not(Weekday(1))>>),
      And(<<Not(Weekends), Not(Or(<<And(<<Month(1), Day(1)>>),
                                    And(<<Month(10), Day(31)>>)>>))>>) }

IncludesExprs ==
    {Day(d) : d \in DayValues}
        \cup {DayRange(a, b) : a \in DayRangeEnds, b \in DayRangeEnds}
        \cup {Week(w) : w \in -6..6}
        \cup {Weekday(w) : w \in Weekdays}
        \cup {WeekdayRange(a, b) : a \in Weekdays, b \in Weekdays}
        \cup {Month(m) : m \in Months}
        \cup {MonthRange(a, b) : a \in MonthRangeEnds, b \in MonthRangeEnds}
        \cup {Year(y) : y \in YearValues}
        \cup {YearRange(a, b) : a \in YearRangeEnds, b \in YearRangeEnds}
        \cup {Date(Midnight(FirstYear + 1, 2, 28) + 5),
              Date(Midnight(LastYear, 12, 31))}
        \cup CombinedExprs

\* --------------------------------------------------------------- Includes

\* A caller evaluates te.Includes(u).
IncludesCall(u) ==
    /\ pc = "idle"
    /\ op' = "Includes"
    /\ start' = u
    /\ t' = u
    /\ inc' = Includes(te, u)
    /\ pc' = "done"
    /\ UNCHANGED <<calleeT, recv, arg, vals, heap, te, max, n, i, ts, res>>

IncludesNext ==
    /\ pc = "idle"
    /\ \E u \in WindowInstants : IncludesCall(u)

InitIncludes == InitWith(IncludesExprs)

SpecIncludes == InitIncludes /\ [][IncludesNext]_vars

Included == op = "Includes" /\ pc = "done"

\* ------------------------------------------------- claims about Includes

\* the length of month m of year y, from the calendar's table
DaysIn(y, m) ==
    CASE m \in {1, 3, 5, 7, 8, 10, 12} -> 31
      [] m \in {4, 6, 9, 11}           -> 30
      [] m = 2                         -> IF IsLeap(y) THEN 29 ELSE 28

DaysInMonthOf(u) == DaysIn(TimeYear(u), TimeMonth(u))

\* the day of the month a stored Day value stands for in u's month
ResolvedDay(d, u) == IF d >= 0 THEN d ELSE DaysInMonthOf(u) + d + 1

\* C7: Day(n).Includes(t) holds iff the resolved day (n when n >= 0, the
\* month's length + n + 1 when n < 0) equals t's day of the month; Day(-1)
\* matches exactly the last day of t's month, and Day(31) matches no instant
\* of a month shorter than 31 days.
C7_DayIncludesResolvedDay ==
    (Included /\ te.kind = "Day") =>
        /\ inc <=> (ResolvedDay(te.a, t) = TimeDay(t))
        /\ (te.a = -1) => (inc <=> (TimeDay(t) = DaysInMonthOf(t)))
        /\ (te.a = 31 /\ DaysInMonthOf(t) < 31) => ~inc

\* Day(-1) evaluated true on a 29 February
C7_Witness ==
    /\ Included
    /\ te = Day(-1)
    /\ inc
    /\ TimeMonth(t) = 2
    /\ TimeDay(t) = 29

RangeKinds == {"DayRange", "WeekdayRange", "MonthRange", "YearRange"}

\* C8 as stated: a range whose stored Start is greater than its stored End
\* includes no instant, whatever the kind of range.
C8_StoredReversedNeverMatches ==
    (Included /\ te.kind \in RangeKinds /\ te.a > te.b) => ~inc

\* the endpoints a range compares t's field with
ResolvedStart(e, u) == IF e.kind = "DayRange" THEN ResolvedDay(e.a, u) ELSE e.a

ResolvedEnd(e, u) == IF e.kind = "DayRange" THEN ResolvedDay(e.b, u) ELSE e.b

\* C8, amended: a range includes no instant t against which its resolved
\* endpoints are reversed.  For WeekdayRange, MonthRange and YearRange the
\* resolved endpoints are the stored ones; for DayRange they are the stored
\* ones normalised in t's month, so a DayRange with stored Start > End never
\* matches when both endpoints are >= 0 or both are negative.
C8_ResolvedReversedNeverMatches ==
    (Included /\ te.kind \in RangeKinds) =>
        /\ (ResolvedStart(te, t) > ResolvedEnd(te, t)) => ~inc
        /\ (te.kind # "DayRange" /\ te.a > te.b) => ~inc
        /\ (te.kind = "DayRange" /\ te.a > te.b /\ ((te.a >= 0) <=> (te.b >= 0)))
               => ~inc

\* DayRange(7, 5) evaluated on the 6th of a month
C8_Witness ==
    /\ Included
    /\ te = DayRange(7, 5)
    /\ TimeDay(t) = 6
    /\ ~inc

\* C9: DayRange(0, -1) includes every day of every month.
C9_WholeMonth ==
    (Included /\ te = DayRange(0, -1)) => inc

\* DayRange(0, -1) evaluated on the last day of a 28-day month
C9_Witness ==
    /\ Included
    /\ te = DayRange(0, -1)
    /\ TimeMonth(t) = 2
    /\ TimeDay(t) = 28
    /\ DaysInMonthOf(t) = 28
    /\ inc

\* C10: WeekdayRange, MonthRange and YearRange include t iff
\* Start <= field(t) <= End for t's weekday, month or year, both endpoints
\* included; WeekdayRange(Tuesday, Thursday) includes exactly the Tuesdays,
\* Wednesdays and Thursdays (2 October 2018 is a Tuesday).
C10_InclusiveInterval ==
    Included =>
        /\ (te.kind = "WeekdayRange") =>
               (inc <=> (te.a <= TimeWeekday(t) /\ TimeWeekday(t) <= te.b))
        /\ (te.kind = "MonthRange") =>
               (inc <=> (te.a <= TimeMonth(t) /\ TimeMonth(t) <= te.b))
        /\ (te.kind = "YearRange") =>
               (inc <=> (te.a <= TimeYear(t) /\ TimeYear(t) <= te.b))
        /\ (te = WeekdayRange(2, 4)) =>
               /\ inc <=> (TimeWeekday(t) \in {2, 3, 4})
               /\ inc <=> ((AbsDay(t) - AbsDay(Midnight(2018, 10, 2))) % 7 \in {0, 1, 2})

\* WeekdayRange(Tuesday, Thursday) evaluated true on a Thursday, its End
C10_Witness ==
    /\ Included
    /\ te = WeekdayRange(2, 4)
    /\ TimeWeekday(t) = 4
    /\ inc

\* C11: WeekOfMonth(t) is a position between 1 and 6 for every instant t,
\* so every day is included by exactly one Week(n) with n in 1..6.
C11_WeekOfMonthInRange ==
    (Included /\ te.kind = "Week") =>
        /\ WeekOfMonth(t) \in 1..6
        /\ Cardinality({w \in 1..6 : WeekIncludes(w, t)}) = 1

\* the first instant of the first day of u's month, from the calendar
FirstOfMonth(u) == Midnight(TimeYear(u), TimeMonth(u), 1)

\* the number of the Monday-to-Sunday week of u, counted from the week of
\* the zero time, a Monday
MondayWeek(u) == AbsDay(u) \div 7

\* C12: Week(1) includes t iff t lies in the Monday-to-Sunday week of the
\* 1st of t's month, that is from the 1st to the first Sunday, and no later
\* day of the month.
C12_FirstWeek ==
    (Included /\ te = Week(1)) =>
        /\ inc <=> (MondayWeek(t) = MondayWeek(FirstOfMonth(t)))
        /\ inc <=> (TimeDay(t) <= 7 - ((TimeWeekday(FirstOfMonth(t)) + 6) % 7))

\* Week(1) evaluated true on a first Sunday that is the 7th of its month,
\* and on a 1 January of ISO week 53 of the year before
C12_Witness ==
    /\ Included
    /\ te = Week(1)
    /\ inc
    /\ \/ TimeDay(t) = 7 /\ TimeWeekday(t) = 0
       \/ TimeDay(t) = 1 /\ TimeMonth(t) = 1 /\ ISOWeek(t) = 53

\* C13: double negation: Not(Not(e)) includes t iff e includes t.
C13_DoubleNegation ==
    (Included /\ te.kind = "Not" /\ te.ee[1].kind = "Not") =>
        (inc <=> Includes(te.ee[1].ee[1], t))

\* Not(Not(e)) evaluated on an instant that e includes
C13_Witness ==
    /\ Included
    /\ te.kind = "Not"
    /\ te.ee[1].kind = "Not"
    /\ Includes(te.ee[1].ee[1], t)
    /\ inc

\* C14: Or includes t iff at least one child does and And iff every child
\* does; Or() includes no instant and And() includes every instant.
C14_OrAnyAndAll ==
    Included =>
        /\ te.kind = "Or" =>
               (inc <=> \E k \in 1..Len(te.ee) : Includes(te.ee[k], t))
        /\ te.kind = "And" =>
               (inc <=> \A k \in 1..Len(te.ee) : Includes(te.ee[k], t))
        /\ te = Or(<<>>) => ~inc
        /\ te = And(<<>>) => inc

\* an Or evaluated true on an instant only its last child of three includes
C14_Witness ==
    /\ Included
    /\ te.kind = "Or"
    /\ Len(te.ee) = 3
    /\ ~Includes(te.ee[1], t)
    /\ ~Includes(te.ee[2], t)
    /\ Includes(te.ee[3], t)
    /\ inc

\* ------------------------------------------------------ Next and NextN

\* calls of NextN pass n in 0 .. MaxN
MaxN == 3

\* the model follows a scan for at most ScanCap days past the start day
ScanCap == 400

\* the caller's horizon lies this many days after the start instant
HorizonDays == {1, 40}

SearchStarts ==
    { Midnight(FirstYear, 12, 1), Midnight(FirstYear, 12, 2),
      Midnight(FirstYear, 9, 30), Midnight(FirstYear, 1, 6) + 13 * Hour + Nanosecond,
      Midnight(FirstYear + 1, 1, 31) + TicksPerDay - Nanosecond,
      Midnight(FirstYear + 1, 2, 28) }

SearchExprs ==
    { Day(1), Day(2), Day(31), Day(-2), DayRange(2, 5), Weekday(2), Week(1),
      Month(10), Date(Midnight(FirstYear + 1, 2, 28) + 5),
      LeapDay, Never, Or(<<>>), And(<<>>), Not(Weekends) }

WithinCap(u) == AbsDay(u) < AbsDay(start) + ScanCap

\* A caller calls Next(s, te).  The function takes no horizon: max records
\* the horizon h days after s that the caller has in mind.
\*     t = timeutil.BeginningOfDay(t)
NextCall(s, h) ==
    /\ pc = "idle"
    /\ op' = "Next"
    /\ start' = s
    /\ max' = Add(s, h * 24 * Hour)
    /\ t' = BeginningOfDay(s)
    /\ pc' = "scan"
    /\ UNCHANGED <<calleeT, recv, arg, vals, heap, te, n, i, ts, res, inc>>

NextLoop_twoDays ==
    /\ pc = "scan"
    /\ ~Includes(te, t)
    /\ WithinCap(t)
    /\ t' = Add(t, 2 * 24 * Hour)
    /\ UNCHANGED <<calleeT, recv, arg, vals, heap, op, pc, te, start, max, n, i, ts, res, inc>>

\*     for !te.Includes(t) { t = t.Add(day) }
NextLoop ==
    /\ pc = "scan"
    /\ ~Includes(te, t)
    /\ WithinCap(t)
    /\ t' = Add(t, 24 * Hour)
    /\ UNCHANGED <<calleeT, recv, arg, vals, heap, op, pc, te, start, max, n, i, ts, res, inc>>

\*     return t
NextReturn ==
    /\ pc = "scan"
    /\ op = "Next"
    /\ Includes(te, t)
    /\ res' = t
    /\ pc' = "done"
    /\ UNCHANGED <<calleeT, recv, arg, vals, heap, op, te, start, t, max, n, i, ts, inc>>

\* A caller calls NextN(s, te, k).
\*     ts := make([]time.Time, n)
NextNCall(s, k, h) ==
    /\ pc = "idle"
    /\ op' = "NextN"
    /\ start' = s
    /\ max' = Add(s, h * 24 * Hour)
    /\ n' = k
    /\ ts' = [j \in 1..k |-> ZeroTime]
    /\ i' = 0
    /\ t' = s
    /\ pc' = "loop"
    /\ UNCHANGED <<calleeT, recv, arg, vals, heap, te, res, inc>>

\*     for i := 0; i < n; i++ { t = Next(t, te) ...   (the call of Next)
NextNLoop ==
    /\ pc = "loop"
    /\ i < n
    /\ t' = BeginningOfDay(t)
    /\ pc' = "scan"
    /\ UNCHANGED <<calleeT, recv, arg, vals, heap, op, te, start, max, n, i, ts, res, inc>>

NextNStore_twoDays ==
    /\ pc = "scan"
    /\ op = "NextN"
    /\ Includes(te, t)
    /\ ts' = [ts EXCEPT ![i + 1] = t]
    /\ t' = Add(t, 2 * 24 * Hour)
    /\ i' = i + 1
    /\ pc' = "loop"
    /\ UNCHANGED <<calleeT, recv, arg, vals, heap, op, te, start, max, n, res, inc>>

NextNStore_noAdvance ==
    /\ pc = "scan"
    /\ op = "NextN"
    /\ Includes(te, t)
    /\ ts' = [ts EXCEPT ![i + 1] = t]
    /\ i' = i + 1
    /\ pc' = "loop"
    /\ UNCHANGED <<calleeT, recv, arg, vals, heap, op, te, start, t, max, n, res, inc>>

\*     ... t = Next(t, te); ts[i] = t; t = t.Add(24 * time.Hour) }
NextNStore ==
    /\ pc = "scan"
    /\ op = "NextN"
    /\ Includes(te, t)
    /\ ts' = [ts EXCEPT ![i + 1] = t]
    /\ t' = Add(t, 24 * Hour)
    /\ i' = i + 1
    /\ pc' = "loop"
    /\ UNCHANGED <<calleeT, recv, arg, vals, heap, op, te, start, max, n, res, inc>>

\*     return ts
NextNReturn ==
    /\ pc = "loop"
    /\ ~(i < n)
    /\ pc' = "done"
    /\ UNCHANGED <<calleeT, recv, arg, vals, heap, op, te, start, t, max, n, i, ts, res, inc>>

SearchCalls ==
    /\ pc = "idle"
    /\ \E s \in SearchStarts, h \in HorizonDays :
           \/ NextCall(s, h)
           \/ \E k \in 0..MaxN : NextNCall(s, k, h)

SearchNext ==
    \/ SearchCalls
    \/ NextLoop
    \/ NextReturn
    \/ NextNLoop
    \/ NextNStore
    \/ NextNReturn

InitSearch == InitWith(SearchExprs)

SpecSearch == InitSearch /\ [][SearchNext]_vars

\* ------------------------------------------- claims about Next and NextN

\* the first instant of day number d
DayStart(d) == d * TicksPerDay

\* the day numbers from u's day up to the horizon h that e includes
MatchesWithin(e, u, h) ==
    {d \in AbsDay(u)..AbsDay(h) : DayStart(d) <= h /\ Includes(e, DayStart(d))}

\* C1: Next returns the first instant of the earliest day that is at or
\* after the day of start and that the expression includes: no day from the
\* start day up to the returned one is included, and a start day that is
\* included is returned itself.
C1_NextIsEarliestMatch ==
    (op = "Next" /\ pc = "done") =>
        /\ res = DayStart(AbsDay(res))
        /\ AbsDay(res) >= AbsDay(start)
        /\ Includes(te, res)
        /\ \A d \in AbsDay(start)..(AbsDay(res) - 1) : ~Includes(te, DayStart(d))
        /\ Includes(te, DayStart(AbsDay(start))) => res = DayStart(AbsDay(start))

\* Next(2 December, Day(1)) has scanned to 1 January and returned it
C1_Witness ==
    /\ op = "Next"
    /\ pc = "done"
    /\ te = Day(1)
    /\ start = Midnight(FirstYear, 12, 2)
    /\ res = Midnight(FirstYear + 1, 1, 1)

\* C2: Next stops at the horizon: it tests no day after the horizon, and
\* when no day from the start day up to the horizon is included it reports
\* "not found" (the zero time).
C2_NextStopsAtHorizon ==
    (op = "Next") =>
        /\ (pc = "scan") => t <= max
        /\ (pc = "done" /\ MatchesWithin(te, start, max) = {}) => IsZero(res)

\* C3: the sequence NextN returns is strictly increasing and each of its
\* elements is included by the expression.
C3_NextNIncreasingMatches ==
    (op = "NextN" /\ pc = "done") =>
        /\ \A j, k \in 1..Len(ts) : j < k => ts[j] < ts[k]
        /\ \A j \in 1..Len(ts) : Includes(te, ts[j])

\* NextN has returned three distinct occurrences
C3_Witness ==
    /\ op = "NextN"
    /\ pc = "done"
    /\ n = 3
    /\ Len(ts) = 3
    /\ te = Day(-2)
    /\ ts[1] < ts[2]
    /\ ts[2] < ts[3]

Min(a, b) == IF a <= b THEN a ELSE b

\* C4: NextN stops early at the horizon: its result holds the first n
\* included days within the horizon, fewer than n when fewer exist, and
\* nothing else; the result is never longer than n.
C4_NextNStopsAtHorizon ==
    (op = "NextN" /\ pc = "done") =>
        /\ Len(ts) <= n
        /\ Len(ts) = Min(n, Cardinality(MatchesWithin(te, start, max)))
        /\ \A j \in 1..Len(ts) : AbsDay(ts[j]) \in MatchesWithin(te, start, max)

\* the day the search for the j-th element of ts begins at: the start day,
\* and after that the day after the element before
SearchedFrom(j) == IF j = 1 THEN AbsDay(start) ELSE AbsDay(ts[j - 1]) + 1

\* C20: NextN skips no occurrence: each element stored is the first
\* included day at or after the start day (the first element) or after the
\* element before it (the others), so no day between two consecutive
\* elements, or between the start day and the first, is included.
C20_NextNSkipsNothing ==
    (op = "NextN") =>
        \A j \in 1..i :
            /\ AbsDay(ts[j]) >= SearchedFrom(j)
            /\ ts[j] = DayStart(AbsDay(ts[j]))
            /\ Includes(te, ts[j])
            /\ \A d \in SearchedFrom(j)..(AbsDay(ts[j]) - 1) :
                   ~Includes(te, DayStart(d))

\* NextN has returned three occurrences, two of them on consecutive days
\* and two with days not included between them
C20_Witness ==
    /\ op = "NextN"
    /\ pc = "done"
    /\ i = 3
    /\ \E j \in 1..2 : AbsDay(ts[j + 1]) = AbsDay(ts[j]) + 1
    /\ \E j \in 1..2 : AbsDay(ts[j + 1]) > AbsDay(ts[j]) + 1

\* ------------------------------------- the Next(t, max) of each expression

KindStarts ==
    { Midnight(FirstYear, 12, 1), Midnight(FirstYear, 12, 2),
      Midnight(FirstYear, 9, 30), Midnight(FirstYear, 10, 2),
      Midnight(FirstYear + 1, 1, 29), Midnight(FirstYear + 1, 1, 31),
      Midnight(FirstYear + 2, 1, 31),
      Midnight(FirstYear, 1, 6) + 13 * Hour + Nanosecond }

\* the horizons passed with a start instant s: a year after it, as the tests
\* pass, 40 days after it, a day after it and s itself
KindHorizons(s) ==
    {AddDate(s, 1, 0, 0), Add(s, 40 * 24 * Hour), Add(s, 24 * Hour), s}

KindDayValues == {-2, -1, 0, 1, 2, 5, 29, 30, 31}

\* the kinds whose Next is "return time.Time{}"
StubKinds == {"Month", "MonthRange", "Year", "YearRange", "Date", "Or", "And", "Not"}

StubExprs ==
    { Month(10), MonthRange(1, 2), Year(FirstYear + 1),
      YearRange(FirstYear, FirstYear + 1), Date(Midnight(FirstYear + 1, 2, 28) + 5),
      Or(<<Year(FirstYear), Day(1)>>), And(<<Year(FirstYear + 1), Day(1)>>),
      Or(<<>>), And(<<>>), Not(MonthRange(1, 2)) }

\* the kinds whose Next is a search loop of its own
LoopKinds == {"Day", "Week", "Weekday"}

\* the kinds whose Next searches by calling the Next of the range's Start
SearchingRangeKinds == {"DayRange", "WeekdayRange"}

LoopExprs ==
    {Day(d) : d \in KindDayValues}
        \cup {Week(w) : w \in {-1, 0, 1, 2, 5}}
        \cup {Weekday(w) : w \in {0, 1, 3, 6, 7}}

RangeExprs ==
    { DayRange(2, 5), DayRange(5, 3), DayRange(0, 5), DayRange(29, 31),
      DayRange(-3, -1), DayRange(0, -1),
      WeekdayRange(1, 5), WeekdayRange(5, 1), WeekdayRange(6, 6),
      WeekdayRange(0, 6) }

KindExprs == LoopExprs \cup RangeExprs \cup StubExprs

\* A caller calls te.Next(s, m) on a Day.
DayNextCall(s, m) ==
    /\ pc = "idle"
    /\ te.kind = "Day"
    /\ op' = "ExprNext"
    /\ start' = s
    /\ t' = s
    /\ max' = m
    /\ pc' = "loop"
    /\ UNCHANGED <<calleeT, recv, arg, vals, heap, te, n, i, ts, res, inc>>

\*     for t.Before(max) { if d.Includes(t) { return t }
DayNextReturn ==
    /\ pc = "loop"
    /\ te.kind = "Day"
    /\ Before(t, max)
    /\ DayIncludes(te.a, t)
    /\ res' = t
    /\ pc' = "done"
    /\ UNCHANGED <<calleeT, recv, arg, vals, heap, op, te, start, t, max, n, i, ts, inc>>

\* the candidate Day.Next moves to from u, which d does not include
DayNextCandidate(d, u) ==
    LET m == IF DayNormalize(d, u) < TimeDay(u)
             THEN BeginningOfMonth(AddDate(u, 0, 1, 0))
             ELSE BeginningOfMonth(u)
    IN  AddDate(m, 0, 0, DayNormalize(d, m) - 1)

\*     if d.normalize(t) < t.Day() { t = BeginningOfMonth(t.AddDate(0, 1, 0)) }
\*     else { t = BeginningOfMonth(t) }
\*     t = t.AddDate(0, 0, d.normalize(t)-1)
DayNextJump ==
    /\ pc = "loop"
    /\ te.kind = "Day"
    /\ Before(t, max)
    /\ ~DayIncludes(te.a, t)
    /\ t' = DayNextCandidate(te.a, t)
    /\ UNCHANGED <<calleeT, recv, arg, vals, heap, op, pc, te, start, max, n, i, ts, res, inc>>

\*     } return time.Time{}
DayNextFail ==
    /\ pc = "loop"
    /\ te.kind = "Day"
    /\ ~Before(t, max)
    /\ res' = ZeroTime
    /\ pc' = "done"
    /\ UNCHANGED <<calleeT, recv, arg, vals, heap, op, te, start, t, max, n, i, ts, inc>>

\* A caller calls te.Next(s, m) on a Week.
WeekNextCall(s, m) ==
    /\ pc = "idle"
    /\ te.kind = "Week"
    /\ op' = "ExprNext"
    /\ start' = s
    /\ t' = s
    /\ max' = m
    /\ pc' = "loop"
    /\ UNCHANGED <<calleeT, recv, arg, vals, heap, te, n, i, ts, res, inc>>

\*     for t.Before(max) { if w.Includes(t) { return t }
WeekNextReturn ==
    /\ pc = "loop"
    /\ te.kind = "Week"
    /\ Before(t, max)
    /\ WeekIncludes(te.a, t)
    /\ res' = t
    /\ pc' = "done"
    /\ UNCHANGED <<calleeT, recv, arg, vals, heap, op, te, start, t, max, n, i, ts, inc>>

\* the candidate Week.Next moves to from u
WeekNextCandidate(u) == BeginningOfWeek(AddDate(u, 0, 0, 7))

\*     t = timeutil.BeginningOfWeek(t.AddDate(0, 0, 7))
WeekNextJump ==
    /\ pc = "loop"
    /\ te.kind = "Week"
    /\ Before(t, max)
    /\ ~WeekIncludes(te.a, t)
    /\ t' = WeekNextCandidate(t)
    /\ UNCHANGED <<calleeT, recv, arg, vals, heap, op, pc, te, start, max, n, i, ts, res, inc>>

\*     } return time.Time{}
WeekNextFail ==
    /\ pc = "loop"
    /\ te.kind = "Week"
    /\ ~Before(t, max)
    /\ res' = ZeroTime
    /\ pc' = "done"
    /\ UNCHANGED <<calleeT, recv, arg, vals, heap, op, te, start, t, max, n, i, ts, inc>>

\* A caller calls te.Next(s, m) on a Weekday.
WeekdayNextCall(s, m) ==
    /\ pc = "idle"
    /\ te.kind = "Weekday"
    /\ op' = "ExprNext"
    /\ start' = s
    /\ t' = s
    /\ max' = m
    /\ pc' = "loop"
    /\ UNCHANGED <<calleeT, recv, arg, vals, heap, te, n, i, ts, res, inc>>

\*     for t.Before(max) { if wd.Includes(t) { return t }
WeekdayNextReturn ==
    /\ pc = "loop"
    /\ te.kind = "Weekday"
    /\ Before(t, max)
    /\ WeekdayIncludes(te.a, t)
    /\ res' = t
    /\ pc' = "done"
    /\ UNCHANGED <<calleeT, recv, arg, vals, heap, op, te, start, t, max, n, i, ts, inc>>

\* the candidate Weekday.Next moves to from u
WeekdayNextCandidate(u) == BeginningOfDay(AddDate(u, 0, 0, 1))

\*     t = timeutil.BeginningOfDay(t.AddDate(0, 0, 1))
WeekdayNextJump ==
    /\ pc = "loop"
    /\ te.kind = "Weekday"
    /\ Before(t, max)
    /\ ~WeekdayIncludes(te.a, t)
    /\ t' = WeekdayNextCandidate(t)
    /\ UNCHANGED <<calleeT, recv, arg, vals, heap, op, pc, te, start, max, n, i, ts, res, inc>>

\*     } return time.Time{}
WeekdayNextFail ==
    /\ pc = "loop"
    /\ te.kind = "Weekday"
    /\ ~Before(t, max)
    /\ res' = ZeroTime
    /\ pc' = "done"
    /\ UNCHANGED <<calleeT, recv, arg, vals, heap, op, te, start, t, max, n, i, ts, inc>>

\* dr.Start and Weekday(wr.Start): the expression whose Next a range calls
RangeStart(e) == IF e.kind = "DayRange" THEN Day(e.a) ELSE Weekday(e.a)

\* the candidate the Next of the leaf e (a Day or a Weekday) moves to from u
LeafNextCandidate(e, u) ==
    IF e.kind = "Day" THEN DayNextCandidate(e.a, u) ELSE WeekdayNextCandidate(u)

\* A caller calls te.Next(s, m) on a DayRange or a WeekdayRange.
RangeNextCall(s, m) ==
    /\ pc = "idle"
    /\ te.kind \in SearchingRangeKinds
    /\ op' = "ExprNext"
    /\ start' = s
    /\ t' = s
    /\ max' = m
    /\ pc' = "loop"
    /\ UNCHANGED <<calleeT, recv, arg, vals, heap, te, n, i, ts, res, inc>>

\*     for t.Before(max) { if dr.Includes(t) { return t }
RangeNextReturn ==
    /\ pc = "loop"
    /\ te.kind \in SearchingRangeKinds
    /\ Before(t, max)
    /\ Includes(te, t)
    /\ res' = t
    /\ pc' = "done"
    /\ UNCHANGED <<calleeT, recv, arg, vals, heap, op, te, start, t, max, n, i, ts, inc>>

\*     t = dr.Start.Next(t, max)       (the call: the callee's t is the range's)
RangeNextCallsStart ==
    /\ pc = "loop"
    /\ te.kind \in SearchingRangeKinds
    /\ Before(t, max)
    /\ ~Includes(te, t)
    /\ calleeT' = t
    /\ pc' = "callee"
    /\ UNCHANGED <<recv, arg, vals, heap, op, te, start, t, max, n, i, ts, res, inc>>

\* Start.Next returns its t, which Start includes; the range assigns it to t.
StartNextReturn ==
    /\ pc = "callee"
    /\ Before(calleeT, max)
    /\ Includes(RangeStart(te), calleeT)
    /\ t' = calleeT
    /\ pc' = "loop"
    /\ UNCHANGED <<calleeT, recv, arg, vals, heap, op, te, start, max, n, i, ts, res, inc>>

\* Start.Next moves to its next candidate.
StartNextJump ==
    /\ pc = "callee"
    /\ Before(calleeT, max)
    /\ ~Includes(RangeStart(te), calleeT)
    /\ calleeT' = LeafNextCandidate(RangeStart(te), calleeT)
    /\ UNCHANGED <<recv, arg, vals, heap, op, pc, te, start, t, max, n, i, ts, res, inc>>

\* Start.Next returns the zero time; the range assigns it to t.
StartNextFail ==
    /\ pc = "callee"
    /\ ~Before(calleeT, max)
    /\ t' = ZeroTime
    /\ pc' = "loop"
    /\ UNCHANGED <<calleeT, recv, arg, vals, heap, op, te, start, max, n, i, ts, res, inc>>

\*     } return time.Time{}
RangeNextFail ==
    /\ pc = "loop"
    /\ te.kind \in SearchingRangeKinds
    /\ ~Before(t, max)
    /\ res' = ZeroTime
    /\ pc' = "done"
    /\ UNCHANGED <<calleeT, recv, arg, vals, heap, op, te, start, t, max, n, i, ts, inc>>

\* A caller calls te.Next(s, m) on a Month, MonthRange, Year, YearRange,
\* Date, Or, And or Not:
\*     return time.Time{}
StubNext(s, m) ==
    /\ pc = "idle"
    /\ te.kind \in StubKinds
    /\ op' = "ExprNext"
    /\ start' = s
    /\ t' = s
    /\ max' = m
    /\ res' = ZeroTime
    /\ pc' = "done"
    /\ UNCHANGED <<calleeT, recv, arg, vals, heap, te, n, i, ts, inc>>

KindCalls ==
    /\ pc = "idle"
    /\ \E s \in KindStarts : \E m \in KindHorizons(s) :
           \/ DayNextCall(s, m)
           \/ WeekNextCall(s, m)
           \/ WeekdayNextCall(s, m)
           \/ RangeNextCall(s, m)
           \/ StubNext(s, m)

KindNext ==
    \/ KindCalls
    \/ DayNextReturn
    \/ DayNextJump
    \/ DayNextFail
    \/ WeekNextReturn
    \/ WeekNextJump
    \/ WeekNextFail
    \/ WeekdayNextReturn
    \/ WeekdayNextJump
    \/ WeekdayNextFail
    \/ RangeNextReturn
    \/ RangeNextCallsStart
    \/ StartNextReturn
    \/ StartNextJump
    \/ StartNextFail
    \/ RangeNextFail

InitKind == InitWith(KindExprs)

SpecKind == InitKind /\ [][KindNext]_vars

\* ------------------------------------------- claims about Next(t, max)

SetMin(S) == CHOOSE x \in S : \A y \in S : x <= y

\* the brute-force search: test the day of u, then one day after another,
\* until a day is included or the next one lies after the horizon h
BruteForce(e, u, h) ==
    LET M == MatchesWithin(e, u, h)
    IN  IF M = {} THEN ZeroTime ELSE DayStart(SetMin(M))

\* r is the answer of the brute-force search: "not found" when it finds
\* nothing, else an instant of the day it finds
AgreesWithBruteForce(r, e, u, h) ==
    LET b == BruteForce(e, u, h)
    IN  /\ IsZero(r) <=> IsZero(b)
        /\ ~IsZero(r) => AbsDay(r) = AbsDay(b)

\* the first instant from u to the horizon h that e includes, as the loops
\* look for it: u itself, else the first instant of the first included day
\* after u's; the zero time when there is none
FirstMatchUpTo(e, u, h) ==
    IF u <= h /\ Includes(e, u) THEN u
    ELSE LET M == {d \in MatchesWithin(e, u, h) : d > AbsDay(u)}
         IN  IF M = {} THEN ZeroTime ELSE DayStart(SetMin(M))

\* C5: Day.Next(t, max) returns what the brute-force search returns, for
\* every Day value, t and max; it skips no included day.  (Calls whose first
\* included instant is max itself are the matter of C18.)
C5_DayNextIsBruteForce ==
    (/\ op = "ExprNext"
     /\ pc = "done"
     /\ te.kind = "Day"
     /\ FirstMatchUpTo(te, start, max) # max) =>
        AgreesWithBruteForce(res, te, start, max)

\* C6: the Next of a Month, MonthRange, Year, YearRange, Date, Or, And or
\* Not returns the first included instant at or after t, and the zero time
\* only when that instant lies after max.  (Calls whose first included
\* instant is max itself are left out, as in C5.)
C6_EveryKindNextFindsFirst ==
    (/\ op = "ExprNext"
     /\ pc = "done"
     /\ te.kind \in StubKinds
     /\ FirstMatchUpTo(te, start, max) # max) =>
        AgreesWithBruteForce(res, te, start, max)

\* the loop of te.Next is at its head with an iteration to run: t is before
\* max and not included
AtLoopHead ==
    /\ op = "ExprNext"
    /\ pc = "loop"
    /\ Before(t, max)
    /\ ~Includes(te, t)

\* the value the iteration at the loop head assigns to t, where one step
\* decides it: the candidate of a Day, Week or Weekday, and t itself for a
\* range whose Start includes t, since Start.Next(t, max) returns t at once
StandsStill ==
    CASE te.kind = "Day"     -> DayNextCandidate(te.a, t) = t
      [] te.kind = "Week"    -> WeekNextCandidate(t) = t
      [] te.kind = "Weekday" -> WeekdayNextCandidate(t) = t
      [] te.kind \in SearchingRangeKinds -> Includes(RangeStart(te), t)
      [] OTHER -> FALSE

\* C16: every search loop terminates, for every stored value, t and max.
\* A loop that terminates has no iteration that leaves t, and with it the
\* whole state of the loop, as it was: such an iteration repeats for ever.
C16_NoIterationStandsStill == AtLoopHead => ~StandsStill

\* C17: the Next of a DayRange or a WeekdayRange returns the zero time or an
\* included instant from t to max; once Start.Next has returned the zero
\* time it returns the zero time and does not search on from there.
C17_RangeNextWithinBounds ==
    (op = "ExprNext" /\ pc = "done" /\ te.kind \in SearchingRangeKinds) =>
        \/ IsZero(res)
        \/ /\ ~Before(res, start)
           /\ ~Before(max, res)
           /\ Includes(te, res)

\* C18: the horizon is inclusive: when the first included instant is max
\* itself, the Next of a Day, Week or Weekday returns it.
C18_HorizonInclusive ==
    (/\ op = "ExprNext"
     /\ pc = "done"
     /\ te.kind \in LoopKinds
     /\ FirstMatchUpTo(te, start, max) = max) => res = max

\* ------------------------------------------------- appending to Or and And

\* the children a combinator variable may hold, at most
MaxLen == 4

\* the backing arrays allocated, at most
MaxArrays == 3

\* the combinators the caller constructs, and the children it appends
AppendExprs ==
    { Or(<<>>), And(<<>>), Weekends,
      And(<<Not(Saturday), WeekdayRange(2, 6)>>) }

AppendChildren == {Weekday(1), Not(Sunday)}

\* the instants the combinators are compared on: the days of a week, from
\* 1 October of the first year, at midnight
AppendInstants == {Midnight(FirstYear, 10, 1) + d * TicksPerDay : d \in 0..6}

\* the child list of the slice header h in the heap hp
ChildrenOf(h, hp) == IF h.arr = 0 THEN <<>> ELSE SubSeq(hp[h.arr], 1, h.len)

\* the combinator the variable v holds, in the state with variables vs and
\* heap hp
ValueIn(vs, hp, v) == Expr(te.kind, 0, 0, ChildrenOf(vs[v], hp))

Value(v) == ValueIn(vals, heap, v)

\* The capacities append may give the array it allocates for need elements
\* when the old one, of capacity c, is full: the language asks only for
\* room enough; the gc runtime doubles a small slice.
GrownCaps(need, c) == {need, IF 2 * c > need THEN 2 * c ELSE need}

\* the array append allocates: the old children, the new one, nil slots
GrownArray(old, e, c) ==
    [k \in 1..c |-> IF k <= Len(old) THEN old[k]
                    ELSE IF k = Len(old) + 1 THEN e
                    ELSE NilExpr]

\* A value receiver: the method appends to its own copy of the header.
AppendChild_byValue(v, e) ==
    /\ op \in {"idle", "Append", "Copy"}
    /\ te.kind \in {"Or", "And"}
    /\ vals[v].len < MaxLen
    /\ op' = "Append"
    /\ recv' = v
    /\ arg' = e
    /\ UNCHANGED <<pc, te, start, t, max, n, i, ts, res, inc, calleeT,
                   vals, heap>>

\* v.Or(e) and v.And(e): v's list becomes append(list, e).  With spare
\* capacity append stores e in the slot after the last child of the backing
\* array and lengthens the slice; without it allocates an array, copies
\* the children and stores e.
AppendChild(v, e) ==
    /\ op \in {"idle", "Append", "Copy"}
    /\ te.kind \in {"Or", "And"}
    /\ vals[v].len < MaxLen
    /\ op' = "Append"
    /\ recv' = v
    /\ arg' = e
    /\ LET h == vals[v] IN
       IF h.len < h.cap
       THEN /\ heap' = [heap EXCEPT ![h.arr][h.len + 1] = e]
            /\ vals' = [vals EXCEPT ![v].len = h.len + 1]
       ELSE /\ Len(heap) < MaxArrays
            /\ \E c \in GrownCaps(h.len + 1, h.cap) :
                   /\ heap' = Append(heap,
                                     GrownArray(ChildrenOf(h, heap), e, c))
                   /\ vals' = [vals EXCEPT
                                  ![v] = [arr |-> Len(heap) + 1,
                                          len |-> h.len + 1,
                                          cap |-> c]]
    /\ UNCHANGED <<pc, te, start, t, max, n, i, ts, res, inc, calleeT>>

\* w = v: the struct is copied, and with it the slice header, not the array.
CopyValue(v, w) ==
    /\ op \in {"idle", "Append", "Copy"}
    /\ te.kind \in {"Or", "And"}
    /\ v # w
    /\ op' = "Copy"
    /\ recv' = w
    /\ arg' = NilExpr
    /\ vals' = [vals EXCEPT ![w] = vals[v]]
    /\ UNCHANGED <<pc, te, start, t, max, n, i, ts, res, inc, calleeT, heap>>

AppendNext ==
    \/ \E v \in Names : \E e \in AppendChildren : AppendChild(v, e)
    \/ \E v \in Names : \E w \in Names : CopyValue(v, w)

InitAppend == InitWith(AppendExprs)

SpecAppend == InitAppend /\ [][AppendNext]_vars

\* the instants of AppendInstants that e includes
Matched(e) == {u \in AppendInstants : Includes(e, u)}

\* C15: an append takes effect on its receiver: after v.Or(e), v includes t
\* iff v included t before or e includes t, and after v.And(e) iff v
\* included t before and e includes t; so an append to an Or only adds
\* instants to those it matches and an append to an And only removes some.
C15_AppendInPlace ==
    [][op' = "Append" =>
          LET before == Matched(ValueIn(vals, heap, recv'))
              after == Matched(ValueIn(vals', heap', recv'))
          IN  /\ te.kind = "Or" =>
                     /\ after = before \cup Matched(arg')
                     /\ before \subseteq after
              /\ te.kind = "And" =>
                     /\ after = before \cap Matched(arg')
                     /\ after \subseteq before]_vars

\* an append to an Or of two children has added instants to its matches,
\* and left some out
C15_Witness ==
    /\ op = "Append"
    /\ te.kind = "Or"
    /\ vals[recv].len = 3
    /\ Matched(arg) \ Matched(Or(SubSeq(ChildrenOf(vals[recv], heap), 1, 2)))
           # {}
    /\ Matched(Value(recv)) # AppendInstants

\* C19: an append changes only the value appended to: the children of
\* every other combinator variable, a copy taken earlier included, are what
\* they were, whatever backing array they share.
C19_AppendChangesOnlyReceiver ==
    [][op' = "Append" =>
          \A w \in Names \ {recv'} :
              ChildrenOf(vals'[w], heap') = ChildrenOf(vals[w], heap)]_vars

\* ------------------------------------------------------- time of day

\* the times of day an evaluation is compared with: the first tick of the
\* day, the tick after noon and the last tick of the day
ComparedTimesOfDay == {0, 12 * Hour + Nanosecond, TicksPerDay - Nanosecond}

\* C21: Includes is day-granular: an expression includes two instants of
\* the same calendar day alike, whatever their times of day.
C21_DayGranular ==
    Included =>
        \A tod \in ComparedTimesOfDay :
            Includes(te, DayStart(AbsDay(t)) + tod) <=> inc

\* an expression that resolves its value through the end of the month, or
\* a Date stored with a time of day, includes the last tick of a day
C21_Witness ==
    /\ Included
    /\ inc
    /\ TimeOfDay(t) = TicksPerDay - Nanosecond
    /\ \/ te.kind = "Day" /\ te.a < 0
       \/ te.kind = "Date" /\ TimeOfDay(te.a) # 0

\* ------------------------------------------------------ the whole program

\* Every operation on every expression built.  SpecIncludes, SpecSearch and
\* SpecKind are its restrictions to one family of operations each.
Init == InitWith(IncludesExprs \cup SearchExprs \cup KindExprs \cup AppendExprs)

Next ==
    \/ IncludesNext
    \/ SearchNext
    \/ KindNext
    \/ AppendNext

Spec == Init /\ [][Next]_vars

=============================================================================
